---- MODULE Spec2Model ----
(***************************************************************************)
(* State-machine model of the request pipeline of ProtoPediaApiClient:     *)
(* one client instance, one caller-owned AbortController and one call of   *)
(* listPrototypes or downloadPrototypesTsv followed from construction to   *)
(* its termination and beyond (the caller may still abort afterwards).     *)
(*                                                                         *)
(* Spec follows the cancellation, the transport and the decoding of a call *)
(* of a client with default headers and URL; LiveSpec adds the scheduling  *)
(* of the event loop; HeaderSpec, UrlSpec and RepeatSpec enumerate the     *)
(* options and arguments from which the request is built; ErrorSpec        *)
(* follows the header objects of a ProtoPediaApiError; LogSpec enumerates  *)
(* the log levels of the client and of its calls; ConcurrentSpec follows   *)
(* two calls that are in flight at once on the client.                     *)
(*                                                                         *)
(* JavaScript values are records.  An exception or abort reason is         *)
(* [cls, name, id, ms]: its class, its .name, its .message (id) and, for   *)
(* the timeout error, the number of milliseconds quoted in the message.    *)
(***************************************************************************)
EXTENDS Integers, FiniteSets, Sequences, TLC

----------------------------------------------------------------------------
(* Bounds of the enumeration *)

\* largest finite timeoutMs the constructor is given
MaxTimeout == 1

\* largest number given as the value of a filter field
MaxNumber == 1

\* largest number of pairs in the per-call headers
MaxCallHeaders == 2

(* Program constants *)

DEFAULT_TIMEOUT_MS == 15000

----------------------------------------------------------------------------
(* Values *)

Err(cls, name, id) == [cls |-> cls, name |-> name, id |-> id, ms |-> -1]

\* null; a rejection with undefined behaves the same in every place modelled
\* here (?? falls through, property access throws)
Null == Err("null", "", "null")

\* the reason of a signal that is not aborted
Undefined == Err("undefined", "", "undefined")

\* reasons the caller may hand to controller.abort(reason)
CallerError == Err("Error", "Error", "caller-aborted")
CallerAbortError == Err("DOMException", "AbortError", "User cancel")
CallerReasons == {CallerError, CallerAbortError, Null}

\* failures of the transport
FetchAbortError == Err("DOMException", "AbortError", "The operation was aborted.")
FetchNetworkError == Err("TypeError", "TypeError", "fetch failed")
FetchBoomError == Err("DOMException", "TimeoutError", "boom")

\* failures of reading a body
JsonSyntaxError == Err("SyntaxError", "SyntaxError", "Unexpected token")
BodyReadError == Err("TypeError", "TypeError", "terminated")
BodyUsedError == Err("TypeError", "TypeError", "Body has already been read")
CloneError == Err("TypeError", "TypeError", "clone failed")
\* reading .message of null or undefined
PropertyAccessError == Err("TypeError", "TypeError", "Cannot read properties of null")

createTimeoutError(timeoutMs) ==
  [cls |-> "DOMException", name |-> "TimeoutError",
   id |-> "Request timed out after N ms", ms |-> timeoutMs]

isAbortError(error) == error.cls = "DOMException" /\ error.name = "AbortError"

IsApiError(v) == v.cls = "ProtoPediaApiError"

----------------------------------------------------------------------------
(* Configuration: timeout normalisation and log levels *)

\* what the caller passes as options.timeoutMs
TimeoutCandidates ==
  {[kind |-> k, val |-> 0] : k \in {"absent", "nan", "posinf", "neginf"}}
    \cup {[kind |-> "num", val |-> v] : v \in -1 .. MaxTimeout}

toTimeoutZeroFallsBack(candidate, fallback) ==
  IF candidate.kind = "num" /\ candidate.val > 0 THEN candidate.val ELSE fallback

toTimeout(candidate, fallback) ==
  IF /\ candidate.kind # "absent"      \* typeof candidate === 'number'
     /\ candidate.kind = "num"         \* Number.isFinite(candidate)
     /\ candidate.val >= 0
  THEN candidate.val
  ELSE fallback

LogLevels == {"silent", "error", "warn", "info", "debug"}

\* requestOptions.logLevel as enumerated for a call; "none" when it is absent
RequestLevels == {"none", "silent", "debug"}

getLogLevelValue(level) ==
  CASE level = "silent" -> -1
    [] level = "error" -> 0
    [] level = "warn" -> 1
    [] level = "info" -> 2
    [] level = "debug" -> 3

shouldLogStrictlyBelow(configuredLevelValue, messageLevel) ==
  IF configuredLevelValue < 0 THEN FALSE
  ELSE IF getLogLevelValue(messageLevel) < 0 THEN FALSE
  ELSE getLogLevelValue(messageLevel) < configuredLevelValue

shouldLog(configuredLevelValue, messageLevel) ==
  IF configuredLevelValue < 0 THEN FALSE
  ELSE IF getLogLevelValue(messageLevel) < 0 THEN FALSE
  ELSE getLogLevelValue(messageLevel) <= configuredLevelValue

\* metadata that holds no header map
NoHeaderMap == <<>>

\* ProtoPediaApiClient.log: the journal of the calls of log after this one.
\* emitted says whether the method of the logger was invoked with the message
\* and the metadata; headers is the header map the metadata holds
log(entries, level, message, headers, levelValue) ==
  Append(entries, [level |-> level, message |-> message, headers |-> headers,
                   emitted |-> shouldLog(levelValue, level)])

----------------------------------------------------------------------------
(* Responses and their bodies *)

Statuses == {200, 299, 300, 401}

StatusText(status) ==
  CASE status = 200 -> "OK"
    [] status = 299 -> ""
    [] status = 300 -> "Multiple Choices"
    [] status = 401 -> "Unauthorized"

\* value of the content-type header, "none" when the header is absent
ContentTypes == {"application/json", "Application/JSON; charset=utf-8", "text/html", "none"}

Responses ==
  [status : Statuses, contentType : ContentTypes]

\* Response.ok
Ok(response) == response.status >= 200 /\ response.status <= 299

\* response.headers.get('content-type')?.toLowerCase().includes('application/json')
ContentTypeIsJson(response) ==
  response.contentType \in {"application/json", "Application/JSON; charset=utf-8"}

\* response.headers as a Headers object: the content type when there is one
\* and, on a 401, the challenge of the server
ResponseHeaders(response) ==
  [n \in (IF response.contentType = "none" THEN {} ELSE {"content-type"})
          \cup (IF response.status = 401 THEN {"www-authenticate"} ELSE {}) |->
     IF n = "content-type" THEN response.contentType ELSE "Bearer realm=api"]

\* headersToPlainObject(response.headers): lower-cased names, values kept
headersToPlainObject(response) ==
  LET headers == ResponseHeaders(response)
      names == SelectSeq(<<"content-type", "www-authenticate">>,
                         LAMBDA n : n \in DOMAIN headers)
  IN [i \in 1 .. Len(names) |-> [name |-> names[i], value |-> headers[names[i]]]]

\* the plain object as a map from its keys to their values
PlainObjectMap(plain) ==
  [n \in {plain[i].name : i \in DOMAIN plain} |->
     (CHOOSE e \in {plain[i] : i \in DOMAIN plain} : e.name = n).value]

(* How the body of a response behaves when it is read.  std: a body with    *)
(* the semantics of the Fetch standard (one stream, consumed by the first   *)
(* read, duplicated by clone()); otherwise a duck-typed object whose        *)
(* json(), text() and clone() are independent functions.  json and text     *)
(* say what a read of an unconsumed body does: "ok", "fail" (rejects with   *)
(* an Error) or "null" (rejects with null or undefined).                    *)
BodyBehaviours ==
  {b \in [std : BOOLEAN, cloneOk : BOOLEAN,
          json : {"ok", "fail", "null"}, text : {"ok", "fail", "null"}] :
     b.std => /\ b.cloneOk
              /\ (b.text # "ok" => b.json = b.text)}

TextFailure(b) == IF b.text = "null" THEN Null ELSE BodyReadError

JsonFailure(b) ==
  IF b.std /\ b.text # "ok" THEN TextFailure(b)
  ELSE IF b.json = "null" THEN Null ELSE JsonSyntaxError

JsonValue == [kind |-> "json", message |-> ""]
TextValue == [kind |-> "text", message |-> ""]
NullValue == [kind |-> "null", message |-> ""]

\* response.json() on a handle whose body was (used) or was not read before
ReadJson(b, used) ==
  IF b.std /\ used THEN [ok |-> FALSE, value |-> NullValue, error |-> BodyUsedError]
  ELSE IF b.json = "ok" THEN [ok |-> TRUE, value |-> JsonValue, error |-> Undefined]
  ELSE [ok |-> FALSE, value |-> NullValue, error |-> JsonFailure(b)]

\* response.text()
ReadText(b, used) ==
  IF b.std /\ used THEN [ok |-> FALSE, value |-> NullValue, error |-> BodyUsedError]
  ELSE IF b.text = "ok" THEN [ok |-> TRUE, value |-> TextValue, error |-> Undefined]
  ELSE [ok |-> FALSE, value |-> NullValue, error |-> TextFailure(b)]

\* one read of a body: the handle it was issued on (the response or its
\* copy), the method, whether an earlier read was issued on the same handle,
\* and the value it rejected with (Undefined when it fulfilled)
Read(handle, method, used, result) ==
  [handle |-> handle, method |-> method, used |-> used, error |-> result.error]

\* new ProtoPediaApiError(options)
ProtoPediaApiError(message, response, body, cause) ==
  [cls |-> "ProtoPediaApiError", name |-> "ProtoPediaApiError", id |-> message,
   ms |-> -1, status |-> response.status, statusText |-> StatusText(response.status),
   headers |-> headersToPlainObject(response), body |-> body, cause |-> cause]


----------------------------------------------------------------------------
(* Decoding a response *)

ParseFailureMessage(context) ==
  CASE context = "listPrototype" -> "Failed to parse listPrototype response as JSON"
    [] OTHER -> "Failed to parse response as JSON"

\* parseJson: [threw, value], the payload returned or the value thrown
parseJson(response, b, context) ==
  LET j == ReadJson(b, FALSE)
      first == <<Read("response", "json", FALSE, j)>>
  IN
  IF j.ok THEN [threw |-> FALSE, value |-> j.value, reads |-> first]
  ELSE LET t == ReadText(b, TRUE)
           reads == Append(first, Read("response", "text", TRUE, t))
       IN
       IF t.ok
       THEN [threw |-> TRUE,
             value |-> ProtoPediaApiError(ParseFailureMessage(context), response,
                                          t.value, j.error),
             reads |-> reads]
       ELSE [threw |-> TRUE, value |-> t.error, reads |-> reads]

\* await response.text() of downloadPrototypesTsv
readTsv(b) ==
  LET t == ReadText(b, FALSE)
      reads == <<Read("response", "text", FALSE, t)>>
  IN
  IF t.ok THEN [threw |-> FALSE, value |-> t.value, reads |-> reads]
  ELSE [threw |-> TRUE, value |-> t.error, reads |-> reads]

ParseErrorBodyWithoutMessage(error) == [kind |-> "parseError", message |-> ""]

ParseErrorBody(error) == [kind |-> "parseError", message |-> error.id]

buildErrorReadsTextFirst(response, b) ==
  LET t == ReadText(b, FALSE)
      first == <<Read("response", "text", FALSE, t)>>
      j == ReadJson(b, TRUE)
      reads == Append(first, Read("response", "json", TRUE, j))
      body == IF t.ok THEN t.value ELSE IF j.ok THEN j.value ELSE ParseErrorBody(t.error)
  IN [threw |-> FALSE,
      value |-> ProtoPediaApiError("API request failed", response, body, Undefined),
      reads |-> IF t.ok THEN first ELSE reads]

\* buildError: [threw, value, reads], the ProtoPediaApiError built, or the
\* value thrown while building it, and the reads of the body it issued
buildError(response, b) ==
  LET built(body, reads) ==
        [threw |-> FALSE,
         value |-> ProtoPediaApiError("API request failed", response, body, Undefined),
         reads |-> reads]
      failed(reads) == [threw |-> TRUE, value |-> PropertyAccessError, reads |-> reads]
  IN
  IF ContentTypeIsJson(response)
  THEN LET j == IF b.cloneOk THEN ReadJson(b, FALSE)
                ELSE [ok |-> FALSE, value |-> NullValue, error |-> CloneError]
           first == IF b.cloneOk THEN <<Read("copy", "json", FALSE, j)>> ELSE <<>>
       IN IF j.ok THEN built(j.value, first)
          ELSE LET t == ReadText(b, FALSE)
                   reads == Append(first, Read("response", "text", FALSE, t))
               IN IF t.ok THEN built(t.value, reads)
                  ELSE IF t.error = Null THEN failed(reads)
                  ELSE built(ParseErrorBody(t.error), reads)
  ELSE LET t == ReadText(b, FALSE)
           first == <<Read("response", "text", FALSE, t)>>
       IN IF t.ok THEN built(t.value, first)
          ELSE LET j == ReadJson(b, TRUE)
                   reads == Append(first, Read("response", "json", TRUE, j))
               IN IF j.ok THEN built(j.value, reads)
                  ELSE IF t.error = Null THEN failed(reads)
                  ELSE built(ParseErrorBody(t.error), reads)

----------------------------------------------------------------------------
(* Cancellation *)

NotAborted == [aborted |-> FALSE, reason |-> Undefined]

ControllerAbortOverwrites(signal, reason) == [aborted |-> TRUE, reason |-> reason]

\* AbortController.abort(reason): a signal is aborted once
ControllerAbort(signal, reason) ==
  IF signal.aborted THEN signal ELSE [aborted |-> TRUE, reason |-> reason]

createAbortSignalIgnoresAborted(signalGiven, token, timeoutMs) ==
  [composed |-> NotAborted,
   timeoutId |-> timeoutMs > 0,
   abortListener |-> signalGiven /\ ~token.aborted]

\* createAbortSignal: the composed signal and the closure variables of cleanup
createAbortSignal(signalGiven, token, timeoutMs) ==
  [composed |-> IF signalGiven /\ token.aborted
                THEN ControllerAbort(NotAborted, token.reason)
                ELSE NotAborted,
   timeoutId |-> timeoutMs > 0,
   abortListener |-> signalGiven /\ ~token.aborted]

cleanupKeepsListener(timeoutId, timerPending, signalGiven, abortListener, listenerAttached) ==
  [timerPending |-> IF timeoutId THEN FALSE ELSE timerPending,
   listenerAttached |-> listenerAttached]

\* cleanup(): the timer table and the token's listener list afterwards
cleanup(timeoutId, timerPending, signalGiven, abortListener, listenerAttached) ==
  [timerPending |-> IF timeoutId THEN FALSE ELSE timerPending,
   listenerAttached |-> IF signalGiven /\ abortListener THEN FALSE ELSE listenerAttached]

\* what a transport may reject with; one that honours the signal may reject
\* with the signal's reason
TransportErrors(composed) ==
  {FetchAbortError, FetchNetworkError, FetchBoomError}
    \cup (IF composed.aborted /\ composed.reason # Null THEN {composed.reason} ELSE {})

executeCatchWraps(error, signalGiven, token, entries, levelValue) ==
  [branch |-> "unexpected",
   thrown |-> IF IsApiError(error) THEN error
              ELSE [cls |-> "ProtoPediaApiError", name |-> "ProtoPediaApiError",
                    id |-> "API request failed", ms |-> -1, status |-> 0,
                    statusText |-> "", headers |-> <<>>, body |-> NullValue,
                    cause |-> error],
   logged |-> entries]

executeCatchRenamesTimeout(error, signalGiven, token, entries, levelValue) ==
  [branch |-> IF IsApiError(error) THEN "apiError"
              ELSE IF isAbortError(error) /\ signalGiven /\ token.aborted THEN "callerAbort"
              ELSE IF isAbortError(error) THEN "abort" ELSE "unexpected",
   thrown |-> IF IsApiError(error) THEN error
              ELSE IF isAbortError(error) /\ signalGiven /\ token.aborted
              THEN (IF token.reason \in {Null, Undefined} THEN error ELSE token.reason)
              ELSE IF isAbortError(error)
              THEN [cls |-> "DOMException", name |-> "TimeoutError",
                    id |-> "Request timed out after N ms", ms |-> 0]
              ELSE error,
   logged |-> entries]

executeCatchAnyError(error, signalGiven, token, entries, levelValue) ==
  [branch |-> IF IsApiError(error) THEN "apiError"
              ELSE IF signalGiven /\ token.aborted THEN "callerAbort"
              ELSE IF isAbortError(error) THEN "abort" ELSE "unexpected",
   thrown |-> IF IsApiError(error) THEN error
              ELSE IF signalGiven /\ token.aborted
              THEN (IF token.reason \in {Null, Undefined} THEN error ELSE token.reason)
              ELSE error,
   logged |-> entries]

executeCatchGeneric(error, signalGiven, token, entries, levelValue) ==
  [branch |-> IF IsApiError(error) THEN "apiError"
              ELSE IF isAbortError(error) THEN "abort" ELSE "unexpected",
   thrown |-> error,
   logged |-> entries]

executeCatchReportsInstead(error, signalGiven, token, entries, levelValue) ==
  [branch |-> IF IsApiError(error) THEN "apiError"
              ELSE IF isAbortError(error) /\ signalGiven /\ token.aborted THEN "callerAbort"
              ELSE IF isAbortError(error) THEN "abort" ELSE "unexpected",
   thrown |-> IF IsApiError(error) THEN error
              ELSE IF isAbortError(error) /\ signalGiven /\ token.aborted
              THEN (IF token.reason \in {Null, Undefined} THEN error ELSE token.reason)
              ELSE IF isAbortError(error) \/ ~shouldLog(levelValue, "error") THEN error
              ELSE Undefined,
   logged |-> IF IsApiError(error) THEN entries
              ELSE log(entries, IF isAbortError(error) THEN "warn" ELSE "error",
                       "HTTP request failed", NoHeaderMap, levelValue)]

\* the catch block of execute: the arm taken, the value thrown, the log
executeCatch(error, signalGiven, token, entries, levelValue) ==
  IF IsApiError(error)
  THEN [branch |-> "apiError", thrown |-> error, logged |-> entries]
  ELSE IF isAbortError(error) /\ signalGiven /\ token.aborted
  THEN [branch |-> "callerAbort",
        thrown |-> IF token.reason \in {Null, Undefined} THEN error ELSE token.reason,
        logged |-> log(entries, "warn", "HTTP request aborted by caller", NoHeaderMap,
                       levelValue)]
  ELSE IF isAbortError(error)
  THEN [branch |-> "abort", thrown |-> error,
        logged |-> log(entries, "warn", "HTTP request aborted", NoHeaderMap, levelValue)]
  ELSE [branch |-> "unexpected", thrown |-> error,
        logged |-> log(entries, "error", "HTTP request threw an unexpected error",
                       NoHeaderMap, levelValue)]

----------------------------------------------------------------------------
(* Request construction: headers *)

\* an optional string of the options bag: undefined, or a string
Absent == [set |-> FALSE, val |-> ""]
Str(v) == [set |-> TRUE, val |-> v]

\* JavaScript truthiness of a string | undefined
Truthy(o) == o.set /\ o.val # ""

\* o ?? fallback
Coalesce(o, fallback) == IF o.set THEN o ELSE Str(fallback)

\* `${o}`
Interpolate(o) == IF o.set THEN o.val ELSE "undefined"

DEFAULT_USER_AGENT == "ProtoPedia API Ver 2.0 Node.js Client/VERSION"

\* what the caller passes as options.token and options.userAgent
AuthTokens == {Absent, Str(""), Str("token-123")}
UserAgents == {Absent, Str(""), Str("UnitTest-UA/1.0")}

\* header names as callers and the client spell them, and the byte-lowercased
\* name under which a Headers object stores each
HeaderNames ==
  {"Authorization", "authorization", "X-Client-User-Agent", "x-client-user-agent",
   "Accept", "ACCEPT", "X-Extra", "X-Api-Token"}

Lower(name) ==
  CASE name \in {"Authorization", "authorization"} -> "authorization"
    [] name \in {"X-Client-User-Agent", "x-client-user-agent"} -> "x-client-user-agent"
    [] name \in {"Accept", "ACCEPT", "accept"} -> "accept"
    [] name \in {"X-Extra", "x-extra"} -> "x-extra"
    [] name \in {"X-Api-Token", "x-api-token"} -> "x-api-token"
    [] name \in {"content-type", "www-authenticate"} -> name

\* A HeadersInit is a sequence of <<name, value>> pairs (an object literal
\* lists each name once, an array of pairs may repeat one); undefined is <<>>.
\* A Headers object is a function from lower-cased names to values.
NoHeaders == <<>>
EmptyHeaders == [n \in {} |-> ""]

\* Headers.prototype.set
HeadersSet(headers, name, value) ==
  [n \in DOMAIN headers \cup {Lower(name)} |->
     IF n = Lower(name) THEN value ELSE headers[n]]

\* Headers.prototype.append: values of one name are joined with ", "
HeadersAppend(headers, name, value) ==
  [n \in DOMAIN headers \cup {Lower(name)} |->
     IF n # Lower(name) THEN headers[n]
     ELSE IF n \in DOMAIN headers THEN headers[n] \o ", " \o value
     ELSE value]

\* new Headers(init): every pair is appended
RECURSIVE NewHeaders(_)
NewHeaders(init) ==
  IF init = <<>> THEN EmptyHeaders
  ELSE LET last == init[Len(init)]
       IN HeadersAppend(NewHeaders(SubSeq(init, 1, Len(init) - 1)), last[1], last[2])

\* source.forEach((value, key) => headers.set(key, value)) for the entries of
\* source with the given names
RECURSIVE SetEach(_, _, _)
SetEach(headers, source, names) ==
  IF names = {} THEN headers
  ELSE LET key == CHOOSE n \in names : TRUE
       IN SetEach(HeadersSet(headers, key, source[key]), source, names \ {key})

\* new Headers(source).forEach((value, key) => headers.set(key, value))
SetAll(headers, source) == SetEach(headers, source, DOMAIN source)

RECURSIVE Flatten(_)
Flatten(sources) ==
  IF sources = <<>> THEN <<>> ELSE Head(sources) \o Flatten(Tail(sources))

mergeHeadersAppends(sources) == NewHeaders(Flatten(sources))

\* mergeHeaders(...sources)
RECURSIVE mergeHeaders(_)
mergeHeaders(sources) ==
  IF sources = <<>> THEN EmptyHeaders
  ELSE LET source == sources[Len(sources)]
           headers == mergeHeaders(SubSeq(sources, 1, Len(sources) - 1))
       IN IF source = NoHeaders THEN headers
          ELSE SetAll(headers, NewHeaders(source))

\* String.prototype.includes on the lower-cased header names
Includes(name, part) ==
  CASE part = "auth" -> name \in {"authorization", "www-authenticate"}
    [] part = "token" -> name \in {"x-api-token"}

\* headersToObject of logger.ts: the values of the headers whose name contains
\* 'token' or 'auth' are replaced
headersToObject(headers) ==
  [key \in DOMAIN headers |->
     LET keyLower == Lower(key)
         shouldMask == Includes(keyLower, "token") \/ Includes(keyLower, "auth")
     IN IF shouldMask THEN "***" ELSE headers[key]]

\* headersForLogging of a Headers object
headersForLogging(headers) == headersToObject(headers)

authSourceAlways(token) == <<<<"Authorization", "Bearer " \o Interpolate(token)>>>>

\* execute: this.token ? { Authorization: `Bearer ${this.token}` } : undefined
authSource(token) ==
  IF Truthy(token) THEN <<<<"Authorization", "Bearer " \o Interpolate(token)>>>>
  ELSE NoHeaders

userAgentSourceAlways(userAgent) == <<<<"X-Client-User-Agent", Interpolate(userAgent)>>>>

\* execute: this.userAgent ? { 'X-Client-User-Agent': this.userAgent } : undefined
userAgentSource(userAgent) ==
  IF Truthy(userAgent) THEN <<<<"X-Client-User-Agent", userAgent.val>>>>
  ELSE NoHeaders

\* options.headers of both operations
OperationHeaders == <<<<"Accept", "application/json">>>>

\* the header sources of execute, lowest priority first
headerSources(token, userAgent, callHeaders) ==
  <<authSource(token), userAgentSource(userAgent), OperationHeaders, callHeaders>>

----------------------------------------------------------------------------
(* Request construction: query and URL *)

\* values of a field of the filter object
UndefinedValue == [t |-> "undefined"]
NullField == [t |-> "null"]
StringValue(s) == [t |-> "string", s |-> s]
NumberValue(n) == [t |-> "number", n |-> n]
BooleanValue(b) == [t |-> "boolean", b |-> b]

ParamValues ==
  {UndefinedValue, NullField, StringValue(""), StringValue("vr")}
    \cup {NumberValue(n) : n \in 0 .. MaxNumber}

\* the put(...) calls of serializeListPrototypeParams, in their order
KeyOrder ==
  <<"userNm", "materialNm", "tagNm", "eventNm", "eventId", "awardNm",
    "prototypeId", "status", "limit", "offset">>

\* the fields callers set
CallerKeys == {"limit", "materialNm"}

\* An object is the sequence of its own <<key, value>> properties in insertion
\* order, each key once.
Objects(keys, values) ==
  UNION {{f \in [1 .. n -> keys \X values] :
            \A i, j \in 1 .. n : f[i][1] = f[j][1] => i = j} :
         n \in 0 .. Cardinality(keys)}

\* the params argument: not given, or a filter object
UndefinedParams == [given |-> FALSE, fields |-> <<>>]
ParamObjects ==
  {UndefinedParams}
    \cup {[given |-> TRUE, fields |-> f] : f \in Objects(CallerKeys, ParamValues)}

\* object[key]
Get(object, key) ==
  IF \E i \in DOMAIN object : object[i][1] = key
  THEN object[CHOOSE i \in DOMAIN object : object[i][1] = key][2]
  ELSE UndefinedValue

\* String(value) of a string or a number
String(value) == IF value.t = "string" THEN value.s ELSE ToString(value.n)

\* A URLSearchParams is the sequence of its <<name, value>> pairs.
Keys(search) == {search[i][1] : i \in DOMAIN search}

\* URLSearchParams.prototype.set: the first pair of that name takes the value
\* and the others are removed; without one the pair is appended
SearchSet(search, name, value) ==
  IF name \in Keys(search)
  THEN LET pos == CHOOSE i \in DOMAIN search :
                    /\ search[i][1] = name
                    /\ \A j \in 1 .. i - 1 : search[j][1] # name
       IN SubSeq(search, 1, pos - 1) \o <<<<name, value>>>>
            \o SelectSeq(SubSeq(search, pos + 1, Len(search)),
                         LAMBDA pair : pair[1] # name)
  ELSE Append(search, <<name, value>>)

putSkipsFalsy(search, key, value) ==
  IF value.t \in {"undefined", "null"} THEN search
  ELSE IF value.t = "boolean"
  THEN (IF value.b THEN SearchSet(search, key, "true") ELSE search)
  ELSE IF value = StringValue("") \/ value = NumberValue(0) THEN search
  ELSE SearchSet(search, key, String(value))

\* the closure put of serializeListPrototypeParams
put(search, key, value) ==
  IF value.t \in {"undefined", "null"} THEN search
  ELSE IF value.t = "boolean"
  THEN SearchSet(search, key, IF value.b THEN "true" ELSE "false")
  ELSE SearchSet(search, key, String(value))

\* the put calls from the i-th on
RECURSIVE PutFrom(_, _, _)
PutFrom(search, fields, i) ==
  IF i > Len(KeyOrder) THEN search
  ELSE PutFrom(put(search, KeyOrder[i], Get(fields, KeyOrder[i])), fields, i + 1)

\* a serializer that walks the own properties of the object
RECURSIVE PutEntries(_, _)
PutEntries(search, fields) ==
  IF fields = <<>> THEN search
  ELSE PutEntries(put(search, Head(fields)[1], Head(fields)[2]), Tail(fields))

serializeObjectEntries(params) ==
  IF ~params.given THEN <<>> ELSE PutEntries(<<>>, params.fields)

\* serializeListPrototypeParams(params)
serializeListPrototypeParams(params) ==
  IF ~params.given THEN <<>> ELSE PutFrom(<<>>, params.fields, 1)

\* A URL string is the sequence of its pieces, every "/" of the path a piece
\* of its own, the origin the first piece.
DEFAULT_BASE_URL == <<"https://protopedia.net", "/", "v2", "/", "api">>
ExampleBaseUrl == <<"https://example.com", "/", "api", "/", "v2">>

\* what the caller passes as options.baseUrl: nothing, or a URL string
NoBaseUrl == [set |-> FALSE, val |-> <<>>]
BaseUrls ==
  {NoBaseUrl, Str(ExampleBaseUrl), Str(ExampleBaseUrl \o <<"/">>),
   Str(ExampleBaseUrl \o <<"/", "/">>)}

EndsWithSlash(value) == value # <<>> /\ value[Len(value)] = "/"

\* trimTrailingSlash
trimTrailingSlash(value) ==
  IF EndsWithSlash(value) THEN SubSeq(value, 1, Len(value) - 1) ELSE value

\* pathname.replace(/^\/+/, '')
RECURSIVE StripLeadingSlashes(_)
StripLeadingSlashes(pathname) ==
  IF pathname # <<>> /\ Head(pathname) = "/" THEN StripLeadingSlashes(Tail(pathname))
  ELSE pathname

\* new URL(relative, base) for a relative path without dot segments: the base
\* up to its last "/" followed by the relative path; empty path segments stay
URLResolve(relative, base) ==
  LET cut == CHOOSE i \in DOMAIN base :
               base[i] = "/" /\ \A j \in i + 1 .. Len(base) : base[j] # "/"
  IN SubSeq(base, 1, cut) \o relative

\* query.forEach of buildUrl
RECURSIVE CopyNonEmpty(_, _)
CopyNonEmpty(search, query) ==
  IF query = <<>> THEN search
  ELSE CopyNonEmpty(IF Head(query)[2] # ""
                    THEN SearchSet(search, Head(query)[1], Head(query)[2])
                    ELSE search,
                    Tail(query))

RECURSIVE CopyAll(_, _)
CopyAll(search, query) ==
  IF query = <<>> THEN search
  ELSE CopyAll(SearchSet(search, Head(query)[1], Head(query)[2]), Tail(query))

buildUrlKeepsEmpty(baseUrl, pathname, query) ==
  [path |-> URLResolve(StripLeadingSlashes(pathname), baseUrl \o <<"/">>),
   search |-> CopyAll(<<>>, query)]

\* buildUrl: the URL as [path, search]; url.toString() writes the path, then
\* "?" and the pairs joined by "&" when there are any
buildUrl(baseUrl, pathname, query) ==
  [path |-> URLResolve(StripLeadingSlashes(pathname), baseUrl \o <<"/">>),
   search |-> CopyNonEmpty(<<>>, query)]

\* the pathname of each operation
Pathname(operation) ==
  IF operation = "listPrototypes" THEN <<"/", "prototype", "/", "list">>
  ELSE <<"/", "prototype", "/", "list", "/", "tsv">>

NoRequest ==
  [query |-> <<>>, url |-> [path |-> <<>>, search |-> <<>>], headers |-> EmptyHeaders]

----------------------------------------------------------------------------
(* Header objects and their identity *)

\* The pipeline above treats header maps as values.  Here they are objects: a
\* heap maps each reference to the entries of the object it denotes, a plain
\* object or a Headers object alike.
MapNames == {"accept", "x-k"}
MapValues == {"application/json", "text/plain"}

\* the entries an object may have
MapContents == UNION {[names -> MapValues] : names \in SUBSET MapNames}

EmptyObject == [n \in {} |-> ""]

\* the objects the caller can reach and mutate: its own header map and the
\* headers of the response
SourceRefs == {"callerMap", "responseHeaders"}

\* a fresh object with the given entries
Allocate(objects, ref, entries) ==
  [r \in DOMAIN objects \cup {ref} |-> IF r = ref THEN entries ELSE objects[r]]

\* object[name] = value, headers.set(name, value)
Assign(objects, ref, name, value) ==
  [objects EXCEPT ![ref] = [n \in DOMAIN @ \cup {name} |-> IF n = name THEN value ELSE @[n]]]

\* headersToPlainObject(headers) as an allocation: a new object filled by forEach
headersToPlainObjectRef(objects, ref) ==
  [heap |-> Allocate(objects, "plainObject", objects[ref]), ref |-> "plainObject"]

ApiErrorHeadersAliases(objects, ref) ==
  IF ref = "none" THEN [heap |-> Allocate(objects, "errorHeaders", EmptyObject),
                        ref |-> "errorHeaders"]
  ELSE [heap |-> objects, ref |-> ref]

\* the constructor of ProtoPediaApiError: this.headers = { ...options.headers },
\* with options.headers the object denoted by ref, or undefined ("none")
ApiErrorHeaders(objects, ref) ==
  [heap |-> Allocate(objects, "errorHeaders",
                     IF ref = "none" THEN EmptyObject ELSE objects[ref]),
   ref |-> "errorHeaders"]

----------------------------------------------------------------------------
(* State *)

VARIABLES
  timeoutOpt,        \* options.timeoutMs as given to the constructor
  timeoutMs,         \* this.timeoutMs
  logLevel,          \* this.logLevel
  authToken,         \* this.token
  userAgentOpt,      \* options.userAgent as given to the constructor
  userAgent,         \* this.userAgent
  baseUrlOpt,        \* options.baseUrl as given to the constructor
  baseUrl,           \* this.baseUrl
  token,             \* the caller's AbortSignal: [aborted, reason]
  pc,                \* position of the call
  op,                \* the public operation called
  signalGiven,       \* requestOptions.signal is the caller's signal
  levelValue,        \* logLevelValue resolved for the call
  composed,          \* controller.signal of the call: [aborted, reason]
  timeoutId,         \* createAbortSignal's timeoutId is set
  timerPending,      \* the timer is armed and has neither fired nor been cleared
  abortListener,     \* createAbortSignal's abortListener is set
  listenerAttached,  \* the listener is on the token's listener list
  fetchCalls,        \* number of invocations of fetchFn
  transportResult,   \* how the fetchFn promise settled
  body,              \* how the body of the response behaved, and its reads
  catchBranch,       \* the arm of execute's catch block that ran
  outcome,           \* how the call ended: [kind, value]
  logged,            \* the calls of this.log, in order
  params,            \* the params argument of the call
  callHeaders,       \* requestOptions.headers of the call
  requestLogLevel,   \* requestOptions.logLevel of the call, "none" when not given
  request,           \* the query serialized and what fetchFn was called with
  previous,          \* the caller's record of its previous call
  heap,              \* the header objects: reference -> entries
  errorHeaders,      \* the reference held by error.headers
  builtFrom,         \* the object whose entries the error was given
  snapshot,          \* the entries of that object when the error was constructed
  calls,             \* the calls in flight at once: what each call's closure holds
  signals,           \* the AbortSignals of the callers and of the calls, by object
  timers,            \* the armed timers: the closure each will run
  listeners          \* the abort listeners attached to each caller's signal

vars == <<timeoutOpt, timeoutMs, logLevel, authToken, userAgentOpt, userAgent,
          baseUrlOpt, baseUrl, token, pc, op, signalGiven, levelValue,
          composed, timeoutId, timerPending, abortListener, listenerAttached,
          fetchCalls, transportResult, body, catchBranch, outcome, logged,
          params, callHeaders, requestLogLevel, request, previous,
          heap, errorHeaders, builtFrom, snapshot,
          calls, signals, timers, listeners>>

config == <<timeoutOpt, timeoutMs, logLevel, authToken, userAgentOpt, userAgent,
            baseUrlOpt, baseUrl>>

\* the arguments of the call and the request built from them
requestVars == <<params, callHeaders, requestLogLevel, request>>

\* the header objects
errorVars == <<heap, errorHeaders, builtFrom, snapshot>>

\* the calls that are in flight at once
concurrentVars == <<calls, signals, timers, listeners>>

\* the caller's signal and the state of the call
callVars == <<token, pc, op, signalGiven, levelValue, composed, timeoutId,
              timerPending, abortListener, listenerAttached, fetchCalls,
              transportResult, body, catchBranch, outcome, logged>>

Operations == {"listPrototypes", "downloadPrototypesTsv"}

NoResult == [kind |-> "none", response |-> [status |-> 0, contentType |-> "none"],
             error |-> Undefined]
NoBody == [std |-> FALSE, cloneOk |-> FALSE, json |-> "unread", text |-> "unread",
           reads |-> <<>>]

\* the behaviour of a body together with the reads issued on it
Observed(b, reads) ==
  [std |-> b.std, cloneOk |-> b.cloneOk, json |-> b.json, text |-> b.text,
   reads |-> reads]
NoOutcome == [kind |-> "none", value |-> Undefined]

NoPrevious == [made |-> FALSE, baseUrlOpt |-> NoBaseUrl, op |-> "none",
               params |-> UndefinedParams, url |-> NoRequest.url]

\* the calls made at once on the client, the AbortControllers of their
\* callers and the AbortControllers the calls create
CallIds == {"first", "second"}
TokenRefs == {"tokenA", "tokenB"}
ControllerRefs == {"controller1", "controller2"}
NoRef == "none"

\* a call that was not made yet
IdleCall ==
  [pc |-> "idle", token |-> NoRef, controller |-> NoRef, timeoutId |-> FALSE,
   abortListener |-> FALSE, result |-> NoResult, outcome |-> NoOutcome]

\* new ProtoPediaApiClient(options) with the options drawn from the given
\* sets, the caller's new AbortController(), and the header objects the
\* caller holds
InitWith(timeouts, levels, tokens, agents, bases, contents) ==
  /\ timeoutOpt \in timeouts
  /\ timeoutMs = toTimeout(timeoutOpt, DEFAULT_TIMEOUT_MS)
  /\ logLevel \in levels
  /\ authToken \in tokens
  /\ userAgentOpt \in agents
  /\ userAgent = Coalesce(userAgentOpt, DEFAULT_USER_AGENT)
  /\ baseUrlOpt \in bases
  /\ baseUrl = trimTrailingSlash(Coalesce(baseUrlOpt, DEFAULT_BASE_URL).val)
  /\ params = UndefinedParams
  /\ callHeaders = NoHeaders
  /\ requestLogLevel = "none"
  /\ request = NoRequest
  /\ previous = NoPrevious
  /\ heap \in {[r \in SourceRefs |-> IF r = "callerMap" THEN c ELSE h] :
                  c \in contents, h \in contents}
  /\ errorHeaders = "none"
  /\ builtFrom = "none"
  /\ snapshot = EmptyObject
  /\ token = NotAborted
  /\ pc = "idle"
  /\ op = "none"
  /\ signalGiven = FALSE
  /\ levelValue = getLogLevelValue(logLevel)
  /\ composed = NotAborted
  /\ timeoutId = FALSE
  /\ timerPending = FALSE
  /\ abortListener = FALSE
  /\ listenerAttached = FALSE
  /\ fetchCalls = 0
  /\ transportResult = NoResult
  /\ body = NoBody
  /\ catchBranch = "none"
  /\ outcome = NoOutcome
  /\ logged = <<>>
  /\ calls = [c \in CallIds |-> IdleCall]
  /\ signals = [r \in TokenRefs \cup ControllerRefs |-> NotAborted]
  /\ timers = {}
  /\ listeners = [k \in TokenRefs |-> {}]

\* a client constructed with a timeout and a log level, everything else left
\* to its default
Init ==
  InitWith(TimeoutCandidates, LogLevels, {Absent}, {Absent}, {NoBaseUrl}, {EmptyObject})


----------------------------------------------------------------------------
(* Actions *)

\* the caller calls controller.abort(reason) on its own controller; a listener
\* registered with { once: true } runs and is removed
AbortToken(reason) ==
  /\ ~token.aborted
  /\ token' = ControllerAbort(token, reason)
  /\ IF listenerAttached
     THEN /\ composed' = ControllerAbort(composed, token'.reason)
          /\ listenerAttached' = FALSE
     ELSE UNCHANGED <<composed, listenerAttached>>
  /\ UNCHANGED <<config, requestVars, previous, errorVars, concurrentVars,
                 pc, op, signalGiven, levelValue, timeoutId, timerPending,
                 abortListener, fetchCalls, transportResult, body, catchBranch,
                 outcome, logged>>

\* resolveLogLevelValue
resolveLogLevelValue(requestLevel, configuredValue) ==
  IF requestLevel = "none" THEN configuredValue ELSE getLogLevelValue(requestLevel)

\* listPrototypes / downloadPrototypesTsv up to the await of fetchFn inside
\* execute: the log level is resolved, the signal composed, the request logged
\* and handed to the transport
StartCall(operation, withSignal, requestLevel, filter, headersInit) ==
  /\ pc = "idle"
  /\ LET made == createAbortSignal(withSignal, token, timeoutMs)
         value == resolveLogLevelValue(requestLevel, getLogLevelValue(logLevel))
         query == serializeListPrototypeParams(filter)
         url == buildUrl(baseUrl, Pathname(operation), query)
         headers == mergeHeaders(headerSources(authToken, userAgent, headersInit))
     IN /\ op' = operation
        /\ params' = filter
        /\ callHeaders' = headersInit
        /\ requestLogLevel' = requestLevel
        /\ request' = [query |-> query, url |-> url, headers |-> headers]
        /\ signalGiven' = withSignal
        /\ levelValue' = value
        /\ composed' = made.composed
        /\ timeoutId' = made.timeoutId
        /\ timerPending' = made.timeoutId
        /\ abortListener' = made.abortListener
        /\ listenerAttached' = made.abortListener
        /\ logged' = log(logged, "debug", "HTTP request", headersForLogging(headers),
                         value)
  /\ fetchCalls' = fetchCalls + 1
  /\ pc' = "inFlight"
  /\ UNCHANGED <<config, previous, errorVars, concurrentVars, token, transportResult, body,
                 catchBranch, outcome>>

\* the timer callback runs.  Timers are macrotasks: none runs between the
\* settling of an awaited promise and the continuation that awaits it
TimerFires ==
  /\ timerPending
  /\ pc \in {"inFlight", "buildError"}
  /\ timerPending' = FALSE
  /\ composed' = ControllerAbort(composed, createTimeoutError(timeoutMs))
  /\ UNCHANGED <<config, requestVars, previous, errorVars, concurrentVars,
                 token, pc, op, signalGiven, levelValue, timeoutId,
                 abortListener, listenerAttached, fetchCalls, transportResult,
                 body, catchBranch, outcome, logged>>

\* the promise returned by fetchFn fulfils with a response
TransportResolves(response) ==
  /\ pc = "inFlight"
  /\ transportResult' = [kind |-> "response", response |-> response, error |-> Undefined]
  /\ pc' = "settled"
  /\ UNCHANGED <<config, requestVars, previous, errorVars, concurrentVars,
                 token, op, signalGiven, levelValue, composed, timeoutId,
                 timerPending, abortListener, listenerAttached, fetchCalls, body,
                 catchBranch, outcome, logged>>

\* the promise returned by fetchFn rejects (or fetchFn throws)
TransportRejects(error) ==
  /\ pc = "inFlight"
  /\ error \in TransportErrors(composed)
  /\ transportResult' = [kind |-> "error", response |-> NoResult.response, error |-> error]
  /\ pc' = "settled"
  /\ UNCHANGED <<config, requestVars, previous, errorVars, concurrentVars,
                 token, op, signalGiven, levelValue, composed, timeoutId,
                 timerPending, abortListener, listenerAttached, fetchCalls, body,
                 catchBranch, outcome, logged>>

\* execute's finally block
RunCleanup ==
  LET after == cleanup(timeoutId, timerPending, signalGiven, abortListener, listenerAttached)
  IN /\ timerPending' = after.timerPending
     /\ listenerAttached' = after.listenerAttached

\* an execute that returns the response with the timer and the listener left
\* to the caller
ExecuteReturnsBeforeCleanup ==
  /\ pc = "settled"
  /\ transportResult.kind = "response"
  /\ Ok(transportResult.response)
  /\ logged' = log(logged, "debug", "HTTP response",
                   headersForLogging(ResponseHeaders(transportResult.response)),
                   levelValue)
  /\ pc' = "decoding"
  /\ UNCHANGED <<config, requestVars, previous, errorVars, concurrentVars,
                 token, op, signalGiven, levelValue, composed, timeoutId,
                 timerPending, abortListener, listenerAttached, fetchCalls,
                 transportResult, body, catchBranch, outcome>>

\* execute continues with a 2xx response: it is logged and returned, finally
\* runs, and the public operation goes on to decode the body
ExecuteReturns ==
  /\ pc = "settled"
  /\ transportResult.kind = "response"
  /\ Ok(transportResult.response)
  /\ logged' = log(logged, "debug", "HTTP response",
                   headersForLogging(ResponseHeaders(transportResult.response)),
                   levelValue)
  /\ RunCleanup
  /\ pc' = "decoding"
  /\ UNCHANGED <<config, requestVars, previous, errorVars, concurrentVars,
                 token, op, signalGiven, levelValue, composed, timeoutId,
                 abortListener, fetchCalls, transportResult, body, catchBranch, outcome>>

\* execute continues with a non-2xx response: it is logged and buildError
\* starts to read the body, inside the try block
ExecuteBuildsError ==
  /\ pc = "settled"
  /\ transportResult.kind = "response"
  /\ ~Ok(transportResult.response)
  /\ logged' = log(logged, "debug", "HTTP response",
                   headersForLogging(ResponseHeaders(transportResult.response)),
                   levelValue)
  /\ pc' = "buildError"
  /\ UNCHANGED <<config, requestVars, previous, errorVars, concurrentVars,
                 token, op, signalGiven, levelValue, composed, timeoutId,
                 timerPending, abortListener, listenerAttached, fetchCalls,
                 transportResult, body, catchBranch, outcome>>

\* buildError settles: the error is logged and thrown, or the failure of
\* buildError itself reaches the catch block; finally runs
ExecuteThrowsApiError(b) ==
  /\ pc = "buildError"
  /\ LET built == buildError(transportResult.response, b)
         entries == IF built.threw THEN logged
                    ELSE log(logged, "error", "API request failed",
                             PlainObjectMap(built.value.headers), levelValue)
         caught == executeCatch(built.value, signalGiven, token, entries, levelValue)
     IN /\ body' = Observed(b, built.reads)
        /\ catchBranch' = caught.branch
        /\ logged' = caught.logged
        /\ outcome' = [kind |-> "threw", value |-> caught.thrown]
  /\ RunCleanup
  /\ pc' = "done"
  /\ UNCHANGED <<config, requestVars, previous, errorVars, concurrentVars,
                 token, op, signalGiven, levelValue, composed, timeoutId,
                 abortListener, fetchCalls, transportResult>>

\* a catch block that hands a failed request to the transport once more
ExecuteCatchesRetries ==
  /\ pc = "settled"
  /\ transportResult.kind = "error"
  /\ IF fetchCalls < 2
     THEN /\ fetchCalls' = fetchCalls + 1
          /\ transportResult' = NoResult
          /\ pc' = "inFlight"
          /\ UNCHANGED <<catchBranch, logged, outcome, timerPending, listenerAttached>>
     ELSE /\ LET caught == executeCatch(transportResult.error, signalGiven, token,
                                       logged, levelValue)
             IN /\ catchBranch' = caught.branch
                /\ logged' = caught.logged
                /\ outcome' = [kind |-> "threw", value |-> caught.thrown]
          /\ RunCleanup
          /\ pc' = "done"
          /\ UNCHANGED <<fetchCalls, transportResult>>
  /\ UNCHANGED <<config, requestVars, previous, errorVars, concurrentVars,
                 token, op, signalGiven, levelValue, composed, timeoutId,
                 abortListener, body>>

\* execute continues with the rejection of the transport: catch, then finally
ExecuteCatches ==
  /\ pc = "settled"
  /\ transportResult.kind = "error"
  /\ LET caught == executeCatch(transportResult.error, signalGiven, token, logged, levelValue)
     IN /\ catchBranch' = caught.branch
        /\ logged' = caught.logged
        /\ outcome' = [kind |-> "threw", value |-> caught.thrown]
  /\ RunCleanup
  /\ pc' = "done"
  /\ UNCHANGED <<config, requestVars, previous, errorVars, concurrentVars,
                 token, op, signalGiven, levelValue, composed, timeoutId,
                 abortListener, fetchCalls, transportResult, body>>

\* the public operation decodes the 2xx response: parseJson for
\* listPrototypes, response.text() for downloadPrototypesTsv
Decode(b) ==
  /\ pc = "decoding"
  /\ LET read == IF op = "listPrototypes"
                 THEN parseJson(transportResult.response, b, "listPrototype")
                 ELSE readTsv(b)
         message == IF op = "listPrototypes" THEN "listPrototype response payload"
                    ELSE "downloadPrototypesTsv response payload"
     IN /\ body' = Observed(b, read.reads)
        /\ outcome' = [kind |-> IF read.threw THEN "threw" ELSE "returned",
                       value |-> read.value]
        /\ logged' = IF read.threw THEN logged
                     ELSE log(logged, "debug", message, NoHeaderMap, levelValue)
  /\ pc' = "done"
  /\ UNCHANGED <<config, requestVars, previous, errorVars, concurrentVars,
                 token, op, signalGiven, levelValue, composed, timeoutId,
                 timerPending, abortListener, listenerAttached, fetchCalls,
                 transportResult, catchBranch>>

Next ==
  \/ \E reason \in CallerReasons : AbortToken(reason)
  \/ \E operation \in Operations, withSignal \in BOOLEAN,
        requestLevel \in RequestLevels :
       StartCall(operation, withSignal, requestLevel, UndefinedParams, NoHeaders)
  \/ TimerFires
  \/ \E response \in Responses : TransportResolves(response)
  \/ \E error \in TransportErrors(composed) : TransportRejects(error)
  \/ ExecuteReturns
  \/ ExecuteBuildsError
  \/ \E b \in BodyBehaviours : ExecuteThrowsApiError(b)
  \/ ExecuteCatches
  \/ \E b \in BodyBehaviours : Decode(b)

Spec == Init /\ [][Next]_vars

\* a client whose calls report nothing to the logger, with the default timeout,
\* a positive timeout or none
LiveInit ==
  /\ Init
  /\ logLevel = "silent"
  /\ timeoutOpt \in {[kind |-> "absent", val |-> 0]}
                      \cup {[kind |-> "num", val |-> v] : v \in 0 .. MaxTimeout}

\* a transport that honours the composed signal: once the signal is aborted
\* the pending fetchFn promise does not stay pending
TransportHonoursSignal ==
  /\ composed.aborted
  /\ \E error \in TransportErrors(composed) : TransportRejects(error)

\* the same for a pending read of the body of the response
BodyReadHonoursSignal ==
  /\ composed.aborted
  /\ \/ \E b \in BodyBehaviours : ExecuteThrowsApiError(b)
     \/ \E b \in BodyBehaviours : Decode(b)

\* The event loop runs an armed timer that is not cleared and the continuation
\* of a settled promise; the upstream owes nothing: while the composed signal
\* is not aborted neither the fetchFn promise nor a read of the body has to
\* settle.
LiveSpec ==
  /\ LiveInit
  /\ [][Next]_vars
  /\ WF_vars(TimerFires)
  /\ WF_vars(ExecuteReturns)
  /\ WF_vars(ExecuteBuildsError)
  /\ WF_vars(ExecuteCatches)
  /\ WF_vars(TransportHonoursSignal)
  /\ WF_vars(BodyReadHonoursSignal)

\* The result of the call was delivered and the caller goes on: it notes the
\* request of the call and makes its next call on a client constructed with
\* the same options and the given base URL.
NextCall(base) ==
  /\ pc = "done"
  /\ ~previous.made
  /\ previous' = [made |-> TRUE, baseUrlOpt |-> baseUrlOpt, op |-> op,
                  params |-> params, url |-> request.url]
  /\ baseUrlOpt' = base
  /\ baseUrl' = trimTrailingSlash(Coalesce(base, DEFAULT_BASE_URL).val)
  /\ pc' = "idle"
  /\ op' = "none"
  /\ signalGiven' = FALSE
  /\ levelValue' = getLogLevelValue(logLevel)
  /\ composed' = NotAborted
  /\ timeoutId' = FALSE
  /\ timerPending' = FALSE
  /\ abortListener' = FALSE
  /\ listenerAttached' = FALSE
  /\ fetchCalls' = 0
  /\ transportResult' = NoResult
  /\ body' = NoBody
  /\ catchBranch' = "none"
  /\ outcome' = NoOutcome
  /\ logged' = <<>>
  /\ params' = UndefinedParams
  /\ callHeaders' = NoHeaders
  /\ requestLogLevel' = "none"
  /\ request' = NoRequest
  /\ UNCHANGED <<timeoutOpt, timeoutMs, logLevel, authToken, userAgentOpt, userAgent,
                 token, errorVars, concurrentVars>>

\* clients constructed with a base URL, with and without trailing slashes
UrlInit ==
  InitWith({[kind |-> "num", val |-> 0]}, {"silent"}, {Absent}, {Absent},
           BaseUrls, {EmptyObject})

\* calls with a filter, followed up to a failure of the transport
UrlNext ==
  \/ \E operation \in Operations, filter \in ParamObjects :
       StartCall(operation, FALSE, "none", filter, NoHeaders)
  \/ TransportRejects(FetchNetworkError)
  \/ ExecuteCatches

UrlSpec == UrlInit /\ [][UrlNext]_vars

\* the filters of callers that make two calls
RepeatFilters ==
  {UndefinedParams}
    \cup {[given |-> TRUE, fields |-> f] :
            f \in Objects(CallerKeys, {UndefinedValue, StringValue("vr"), NumberValue(1)})}

\* two calls, the second on a client constructed with the same or with another
\* base URL
RepeatNext ==
  \/ \E operation \in Operations, filter \in RepeatFilters :
       StartCall(operation, FALSE, "none", filter, NoHeaders)
  \/ TransportRejects(FetchNetworkError)
  \/ ExecuteCatches
  \/ \E base \in BaseUrls : NextCall(base)

RepeatSpec == UrlInit /\ [][RepeatNext]_vars

\* the per-call headers callers pass: names in their own spelling
CallerHeaderNames == {"authorization", "X-Client-User-Agent", "ACCEPT", "X-Extra"}
CallerHeaderValues == {"a", "b"}
CallerHeaders ==
  UNION {[1 .. n -> CallerHeaderNames \X CallerHeaderValues] : n \in 0 .. MaxCallHeaders}

\* clients constructed with or without a token and a user agent
HeaderInit ==
  InitWith({[kind |-> "num", val |-> 0]}, {"silent"}, AuthTokens, UserAgents,
           {NoBaseUrl}, {EmptyObject})

\* calls with per-call headers, followed up to a failure of the transport
HeaderNext ==
  \/ \E operation \in Operations, headersInit \in CallerHeaders :
       StartCall(operation, FALSE, "none", UndefinedParams, headersInit)
  \/ TransportRejects(FetchNetworkError)
  \/ ExecuteCatches

HeaderSpec == HeaderInit /\ [][HeaderNext]_vars

\* the log levels a caller may pass with a call
AllRequestLevels == {"none"} \cup LogLevels

\* per-call headers with and without a credential of the caller
LoggedCallerHeaders ==
  {NoHeaders, <<<<"X-Api-Token", "b">>>>, <<<<"authorization", "a">>>>,
   <<<<"X-Extra", "a">>>>}

\* clients constructed with a log level, with or without a token, and no timer
LogInit ==
  InitWith({[kind |-> "num", val |-> 0]}, LogLevels, {Absent, Str("token-123")},
           {Absent}, {NoBaseUrl}, {EmptyObject})

\* two calls, each with or without a log level of its own, followed to their
\* end
LogNext ==
  \/ \E operation \in Operations, requestLevel \in AllRequestLevels,
        headersInit \in LoggedCallerHeaders :
       StartCall(operation, FALSE, requestLevel, UndefinedParams, headersInit)
  \/ \E response \in Responses : TransportResolves(response)
  \/ \E error \in TransportErrors(composed) : TransportRejects(error)
  \/ ExecuteReturns
  \/ ExecuteBuildsError
  \/ \E b \in BodyBehaviours : ExecuteThrowsApiError(b)
  \/ ExecuteCatches
  \/ \E b \in BodyBehaviours : Decode(b)
  \/ NextCall(NoBaseUrl)

LogSpec == LogInit /\ [][LogNext]_vars

\* a controller kept by the client and handed to every call
NewControllerOfClient(held) == "controller1"

\* new AbortController() in createAbortSignal: an object no call holds
NewController(held) == CHOOSE r \in ControllerRefs : r \notin held

\* the caller's signal a call was given
GivenSignal(call) == IF call.token = NoRef THEN NotAborted ELSE signals[call.token]

\* controller.signal of a call
ComposedSignal(c) ==
  IF calls[c].controller = NoRef THEN NotAborted ELSE signals[calls[c].controller]

\* the timer callback and the abort listener of a call: closures over the
\* controller createAbortSignal created
Closure(c, call) == [call |-> c, controller |-> call.controller]

\* a call is made while another may be in flight: createAbortSignal creates
\* its controller, arms its timer and attaches its listener to its token
ConcurrentStart(c, tok) ==
  /\ calls[c].pc = "idle"
  /\ LET withSignal == tok # NoRef
         made == createAbortSignal(withSignal,
                                   IF withSignal THEN signals[tok] ELSE NotAborted,
                                   timeoutMs)
         ref == NewController({calls[d].controller : d \in CallIds})
         call == [pc |-> "inFlight", token |-> tok, controller |-> ref,
                  timeoutId |-> made.timeoutId, abortListener |-> made.abortListener,
                  result |-> NoResult, outcome |-> NoOutcome]
     IN /\ calls' = [calls EXCEPT ![c] = call]
        /\ signals' = [signals EXCEPT ![ref] = made.composed]
        /\ timers' = IF made.timeoutId THEN timers \cup {Closure(c, call)} ELSE timers
        /\ listeners' = IF made.abortListener
                        THEN [listeners EXCEPT ![tok] = @ \cup {Closure(c, call)}]
                        ELSE listeners
  /\ UNCHANGED <<config, requestVars, previous, errorVars, callVars>>

\* the timer of a call runs: controller.abort(createTimeoutError(timeoutMs))
ConcurrentTimerFires(t) ==
  /\ t \in timers
  /\ timers' = timers \ {t}
  /\ signals' = [signals EXCEPT
                   ![t.controller] = ControllerAbort(@, createTimeoutError(timeoutMs))]
  /\ UNCHANGED <<config, requestVars, previous, errorVars, callVars, calls, listeners>>

\* a caller aborts its controller: the listeners on its signal run, each
\* once, with the signal's reason
ConcurrentAbortToken(tok, reason) ==
  /\ ~signals[tok].aborted
  /\ LET aborted == ControllerAbort(signals[tok], reason)
     IN signals' = [r \in DOMAIN signals |->
                      IF r = tok THEN aborted
                      ELSE IF \E l \in listeners[tok] : l.controller = r
                      THEN ControllerAbort(signals[r], aborted.reason)
                      ELSE signals[r]]
  /\ listeners' = [listeners EXCEPT ![tok] = {}]
  /\ UNCHANGED <<config, requestVars, previous, errorVars, callVars, calls, timers>>

\* a body that every read can read
ReadableBody == [std |-> TRUE, cloneOk |-> TRUE, json |-> "ok", text |-> "ok"]

\* how the transport may settle the fetchFn promise of a call
ConcurrentResults(signal) ==
  {[kind |-> "response", response |-> r, error |-> Undefined] :
     r \in {[status |-> 200, contentType |-> "application/json"],
            [status |-> 401, contentType |-> "application/json"]}}
    \cup {[kind |-> "error", response |-> NoResult.response, error |-> e] :
            e \in TransportErrors(signal)}

\* the fetchFn promise of a call settles
ConcurrentSettles(c, result) ==
  /\ calls[c].pc = "inFlight"
  /\ result \in ConcurrentResults(ComposedSignal(c))
  /\ calls' = [calls EXCEPT ![c].pc = "settled", ![c].result = result]
  /\ UNCHANGED <<config, requestVars, previous, errorVars, callVars, signals, timers,
                 listeners>>

\* execute and listPrototypes continue to the end of the call: the error is
\* built or caught, cleanup runs in finally, a 2xx response is decoded
ConcurrentEnds(c) ==
  /\ calls[c].pc = "settled"
  /\ LET call == calls[c]
         withSignal == call.token # NoRef
         after == cleanup(call.timeoutId, Closure(c, call) \in timers, withSignal,
                          call.abortListener,
                          withSignal /\ Closure(c, call) \in listeners[call.token])
         read == parseJson(call.result.response, ReadableBody, "listPrototype")
         ended ==
           IF call.result.kind = "error"
           THEN [kind |-> "threw",
                 value |-> executeCatch(call.result.error, withSignal, GivenSignal(call),
                                        <<>>, getLogLevelValue(logLevel)).thrown]
           ELSE IF Ok(call.result.response)
           THEN [kind |-> IF read.threw THEN "threw" ELSE "returned", value |-> read.value]
           ELSE [kind |-> "threw",
                 value |-> buildError(call.result.response, ReadableBody).value]
     IN /\ calls' = [calls EXCEPT ![c].pc = "done", ![c].outcome = ended]
        /\ timers' = IF after.timerPending THEN timers ELSE timers \ {Closure(c, call)}
        /\ listeners' = IF withSignal /\ ~after.listenerAttached
                        THEN [listeners EXCEPT ![call.token] = @ \ {Closure(c, call)}]
                        ELSE listeners
  /\ UNCHANGED <<config, requestVars, previous, errorVars, callVars, signals>>

\* a client with the default timeout or none
ConcurrentInit ==
  InitWith({[kind |-> "absent", val |-> 0], [kind |-> "num", val |-> 0]}, {"silent"},
           {Absent}, {Absent}, {NoBaseUrl}, {EmptyObject})

\* two calls of listPrototypes on one client, each with a token of its
\* caller, with the token of the other call or with none
ConcurrentNext ==
  \/ \E c \in CallIds, tok \in TokenRefs \cup {NoRef} : ConcurrentStart(c, tok)
  \/ \E t \in timers : ConcurrentTimerFires(t)
  \/ \E tok \in TokenRefs, reason \in {CallerError, CallerAbortError} :
       ConcurrentAbortToken(tok, reason)
  \/ \E c \in CallIds :
       \E result \in ConcurrentResults(ComposedSignal(c)) :
         ConcurrentSettles(c, result)
  \/ \E c \in CallIds : ConcurrentEnds(c)

ConcurrentSpec == ConcurrentInit /\ [][ConcurrentNext]_vars

\* the caller constructs a ProtoPediaApiError, passing its own header map as
\* options.headers, or no headers ("none")
NewApiError(ref) ==
  /\ errorHeaders = "none"
  /\ LET made == ApiErrorHeaders(heap, ref)
     IN /\ heap' = made.heap
        /\ errorHeaders' = made.ref
  /\ builtFrom' = ref
  /\ snapshot' = IF ref = "none" THEN EmptyObject ELSE heap[ref]
  /\ UNCHANGED <<config, requestVars, previous, concurrentVars, callVars>>

\* buildError and parseJson construct the error with
\* headers: headersToPlainObject(response.headers)
BuildErrorHeaders ==
  /\ errorHeaders = "none"
  /\ LET plain == headersToPlainObjectRef(heap, "responseHeaders")
         made == ApiErrorHeaders(plain.heap, plain.ref)
     IN /\ heap' = made.heap
        /\ errorHeaders' = made.ref
  /\ builtFrom' = "responseHeaders"
  /\ snapshot' = heap["responseHeaders"]
  /\ UNCHANGED <<config, requestVars, previous, concurrentVars, callVars>>

\* the caller writes an entry of its header map, or of the headers of the
\* response
MutateSource(ref, name, value) ==
  /\ heap' = Assign(heap, ref, name, value)
  /\ UNCHANGED <<config, requestVars, previous, concurrentVars, callVars, errorHeaders, builtFrom,
                 snapshot>>

\* a caller holding a header map and a response with headers
ErrorInit ==
  InitWith({[kind |-> "num", val |-> 0]}, {"silent"}, {Absent}, {Absent},
           {NoBaseUrl}, MapContents)

ErrorNext ==
  \/ \E ref \in {"callerMap", "none"} : NewApiError(ref)
  \/ BuildErrorHeaders
  \/ \E ref \in SourceRefs, name \in MapNames, value \in MapValues :
       MutateSource(ref, name, value)

ErrorSpec == ErrorInit /\ [][ErrorNext]_vars

----------------------------------------------------------------------------
(* Properties *)

TheResponse == transportResult.response
TheError == transportResult.error

\* the call was made with a token that was already aborted: createAbortSignal
\* was given the signal and registered no listener
PreAborted == pc # "idle" /\ signalGiven /\ ~abortListener

\* the step is the continuation of execute after the transport rejected
CatchStep == pc = "settled" /\ pc' = "done" /\ transportResult.kind = "error"

\* C1 as stated: a call made with an already cancelled token never invokes
\* the transport.
C1_TransportNeverInvoked == PreAborted => fetchCalls = 0

\* C1 amended: a call made with an already cancelled token invokes the transport
\* exactly once, and the composed signal it hands over is already cancelled
\* with the token's reason.
C1_TransportGetsCancelledSignal ==
  PreAborted => /\ fetchCalls = 1
                /\ composed.aborted
                /\ composed.reason = token.reason

C1_Witness ==
  /\ PreAborted
  /\ pc = "inFlight"
  /\ fetchCalls = 1
  /\ composed = [aborted |-> TRUE, reason |-> CallerError]

\* C2 as stated: when the transport fails with an AbortError while the caller's
\* token is cancelled, the call rejects with the token's reason.
C2_RejectsWithTokenReason ==
  [][(CatchStep /\ isAbortError(TheError) /\ signalGiven /\ token.aborted)
       => outcome' = [kind |-> "threw", value |-> token.reason]]_vars

\* C2 amended: when the transport fails with an AbortError while the caller's
\* token is cancelled, the call rejects with the token's reason if that reason
\* is not null, and with the transport's AbortError if it is null.
C2_RejectsWithTokenReasonUnlessNull ==
  [][(CatchStep /\ isAbortError(TheError) /\ signalGiven /\ token.aborted)
       => outcome' = [kind |-> "threw",
                      value |-> IF token.reason = Null THEN TheError
                                ELSE token.reason]]_vars

C2_Witness ==
  /\ pc = "done"
  /\ catchBranch = "callerAbort"
  /\ TheError = FetchAbortError
  /\ token = [aborted |-> TRUE, reason |-> CallerError]
  /\ outcome = [kind |-> "threw", value |-> CallerError]

\* C3: whenever a call has terminated, its timer is not pending and its listener
\* is not on the token, and no later step changes its composed signal.
C3_ReleasedOnTermination ==
  [][pc' = "done" => /\ ~timerPending'
                     /\ ~listenerAttached'
                     /\ (pc = "done" => composed' = composed)]_vars

\* a call that armed a timer and registered a listener has terminated, and the
\* token was fired after the listener was removed
C3_Witness ==
  /\ pc = "done"
  /\ timeoutId
  /\ abortListener
  /\ token.aborted
  /\ ~composed.aborted

\* C4: a call whose transport returned a non-2xx response ends by throwing a
\* ProtoPediaApiError with the status and status text of that response.
C4_NonSuccessThrowsApiError ==
  (pc = "done" /\ transportResult.kind = "response" /\ ~Ok(TheResponse))
    => /\ outcome.kind = "threw"
       /\ IsApiError(outcome.value)
       /\ outcome.value.status = TheResponse.status
       /\ outcome.value.statusText = StatusText(TheResponse.status)

\* C5: listPrototypes given a 2xx response whose body is readable text that is
\* not JSON throws a ProtoPediaApiError with the status and headers of the
\* response, the raw text as body and a message naming the operation.
C5_DecodeFailureThrowsApiError ==
  (/\ pc = "done"
   /\ op = "listPrototypes"
   /\ transportResult.kind = "response"
   /\ Ok(TheResponse)
   /\ body.json = "fail"
   /\ body.text = "ok")
    => /\ outcome.kind = "threw"
       /\ IsApiError(outcome.value)
       /\ outcome.value.status = TheResponse.status
       /\ outcome.value.headers = headersToPlainObject(TheResponse)
       /\ outcome.value.body = TextValue
       /\ outcome.value.id = "Failed to parse listPrototype response as JSON"

\* C6 as stated: if the caller's token fired before the call terminated, the
\* error reported is the token's reason.
C6_TokenReasonReported ==
  [][(pc # "done" /\ pc' = "done" /\ signalGiven /\ token.aborted
        /\ outcome'.kind = "threw")
       => outcome'.value = token.reason]_vars

\* C6 amended: if the caller's token has fired when the transport's failure is
\* handled, the error reported is the token's reason when the failure is an
\* AbortError and the reason is not null, whether or not the timer was armed or
\* fired first; after any other failure of the transport it is that failure.
C6_TokenReasonReportedOnAbort ==
  [][(CatchStep /\ signalGiven /\ token.aborted)
       => outcome'.value = IF isAbortError(TheError) /\ token.reason # Null
                           THEN token.reason
                           ELSE TheError]_vars

\* the timer fired first, the token afterwards, and the token's reason is reported
C6_Witness ==
  /\ pc = "done"
  /\ composed = [aborted |-> TRUE, reason |-> createTimeoutError(timeoutMs)]
  /\ abortListener
  /\ token = [aborted |-> TRUE, reason |-> CallerError]
  /\ catchBranch = "callerAbort"
  /\ outcome = [kind |-> "threw", value |-> CallerError]

\* C7: once cancelled, the composed signal never changes; when it becomes
\* cancelled its reason is the timeout error if the step is the timer firing,
\* and the token's reason otherwise.
C7_FirstSourceWins ==
  [][/\ composed.aborted => composed' = composed
     /\ (~composed.aborted /\ composed'.aborted)
          => composed'.reason =
               IF timerPending /\ ~timerPending' /\ pc' = pc
               THEN createTimeoutError(timeoutMs)
               ELSE token'.reason]_vars

\* both sources fired while the request was in flight
C7_Witness ==
  /\ pc = "inFlight"
  /\ timeoutId
  /\ ~timerPending
  /\ abortListener
  /\ token.aborted
  /\ composed = [aborted |-> TRUE, reason |-> createTimeoutError(timeoutMs)]

\* C8: when the transport's failure is handled while the caller's token is not
\* cancelled, the value thrown to the caller is that very failure.
C8_TransportFailurePropagates ==
  [][(CatchStep /\ ~(signalGiven /\ token.aborted))
       => outcome' = [kind |-> "threw", value |-> TheError]]_vars

\* the timer cancelled the call and the transport's AbortError reached the caller
C8_Witness ==
  /\ pc = "done"
  /\ ~token.aborted
  /\ composed = [aborted |-> TRUE, reason |-> createTimeoutError(timeoutMs)]
  /\ TheError = FetchAbortError
  /\ outcome = [kind |-> "threw", value |-> FetchAbortError]

C10_TimerIffPositiveTimeout ==
  LET effective == IF timeoutOpt.kind = "num" /\ timeoutOpt.val >= 0
                   THEN timeoutOpt.val
                   ELSE 15000
  IN /\ pc # "idle" => (timeoutId <=> effective > 0)
     /\ timerPending => effective > 0
     /\ (timeoutOpt.kind = "num" /\ timeoutOpt.val = 0)
          => composed.reason.name # "TimeoutError"

\* a call of a client configured with timeoutMs 0 is in flight without a timer
C10_Witness ==
  /\ pc = "inFlight"
  /\ timeoutOpt = [kind |-> "num", val |-> 0]
  /\ ~timeoutId
  /\ ~timerPending

\* C11: with a positive effective timeout and a transport that honours the
\* composed signal, every call that has been handed to the transport eventually
\* terminates, whatever the upstream does, also when it stalls after the
\* response headers.
C11_EveryCallTerminates == (pc = "inFlight" /\ timeoutMs > 0) ~> (pc = "done")

\* C20: the transport is invoked at most once per call, whatever the outcome:
\* exactly once from the moment the call is made, and no step after the request
\* was handed over invokes it again.
C20_TransportInvokedAtMostOnce ==
  /\ fetchCalls <= 1
  /\ pc # "idle" => fetchCalls = 1

\* a call whose transport failed has terminated with that one invocation
C20_Witness ==
  /\ pc = "done"
  /\ transportResult.kind = "error"
  /\ outcome.kind = "threw"
  /\ fetchCalls = 1

\* the lower-cased header names
LowerNames == {Lower(name) : name \in HeaderNames}

\* the header source supplies a value for the lower-cased name
Supplies(source, n) == \E i \in DOMAIN source : Lower(source[i][1]) = n

\* C12: for every header name, compared case-insensitively, the value sent is
\* the one of the highest-priority source that supplies the name, in the order
\* auth < user agent < operation defaults < per-call headers, not joined with
\* the value of any other source; a name no source supplies is not sent.
C12_HighestPrioritySourceWins ==
  pc # "idle" =>
    LET sources == <<authSource(authToken), userAgentSource(userAgent),
                     OperationHeaders, callHeaders>>
    IN \A n \in LowerNames :
         LET suppliers == {i \in DOMAIN sources : Supplies(sources[i], n)}
             highest == CHOOSE i \in suppliers : \A j \in suppliers : j <= i
         IN IF suppliers = {} THEN n \notin DOMAIN request.headers
            ELSE /\ n \in DOMAIN request.headers
                 /\ request.headers[n] = NewHeaders(sources[highest])[n]

\* per-call headers spelled in another case replaced the built-in Accept and
\* Authorization values
C12_Witness ==
  /\ pc = "inFlight"
  /\ authToken = Str("token-123")
  /\ callHeaders = <<<<"ACCEPT", "a">>, <<"authorization", "b">>>>
  /\ request.headers["accept"] = "a"
  /\ request.headers["authorization"] = "b"

\* C13: without a token, or with an empty one, no Authorization header is sent
\* unless the per-call headers supply one; a Bearer value is never built from
\* an absent or empty token; with a token and no per-call Authorization the
\* header is Bearer followed by the token.
C13_BearerOnlyFromToken ==
  pc # "idle" =>
    /\ (~Truthy(authToken) /\ ~Supplies(callHeaders, "authorization"))
         => "authorization" \notin DOMAIN request.headers
    /\ "authorization" \in DOMAIN request.headers
         => request.headers["authorization"] \notin {"Bearer undefined", "Bearer "}
    /\ (Truthy(authToken) /\ ~Supplies(callHeaders, "authorization"))
         => /\ "authorization" \in DOMAIN request.headers
            /\ request.headers["authorization"] = "Bearer " \o authToken.val

\* a client constructed with the empty token sent a request without
\* Authorization header
C13_Witness ==
  /\ pc = "inFlight"
  /\ authToken = Str("")
  /\ ~Supplies(callHeaders, "authorization")
  /\ Supplies(callHeaders, "x-extra")
  /\ "authorization" \notin DOMAIN request.headers

\* C14: the built-in X-Client-User-Agent header is sent only if the client has
\* a user agent, which is options.userAgent or, without that option, the
\* default: when the per-call headers do not supply the name, the header is
\* sent with the client's user agent if that is not empty and is not sent
\* otherwise.
C14_UserAgentHeaderIffConfigured ==
  (pc # "idle" /\ ~Supplies(callHeaders, "x-client-user-agent")) =>
    LET configured == IF userAgentOpt.set THEN userAgentOpt.val ELSE DEFAULT_USER_AGENT
    IN IF configured # ""
       THEN /\ "x-client-user-agent" \in DOMAIN request.headers
            /\ request.headers["x-client-user-agent"] = configured
       ELSE "x-client-user-agent" \notin DOMAIN request.headers

\* a client constructed with the empty user agent sent a request without the
\* header
C14_Witness ==
  /\ pc = "inFlight"
  /\ userAgentOpt = Str("")
  /\ "x-client-user-agent" \notin DOMAIN request.headers
  /\ "accept" \in DOMAIN request.headers

\* the position of a key among the put calls of the serializer
KeyIndex(key) == CHOOSE i \in DOMAIN KeyOrder : KeyOrder[i] = key

\* the filter objects have the same value for every field
SameFields(p, q) ==
  \A i \in DOMAIN KeyOrder : Get(p.fields, KeyOrder[i]) = Get(q.fields, KeyOrder[i])

\* C15: the serialized query has exactly the keys of the fields whose value is
\* neither absent (undefined) nor null, each once and with the string of its
\* value: no params or the empty object give the empty query, and a field set
\* to the empty string is retained with the value ''.
C15_SerializerKeepsSetFields ==
  pc # "idle" =>
    /\ Keys(request.query) =
         {KeyOrder[i] : i \in {j \in DOMAIN KeyOrder :
                                 Get(params.fields, KeyOrder[j]).t \notin {"undefined", "null"}}}
    /\ Len(request.query) = Cardinality(Keys(request.query))
    /\ \A i \in DOMAIN request.query :
         LET value == Get(params.fields, request.query[i][1])
         IN request.query[i][2] = IF value.t = "string" THEN value.s ELSE ToString(value.n)

\* a filter with an empty string and a null was serialized to the one pair
\* with the empty value
C15_Witness ==
  /\ pc = "inFlight"
  /\ params = [given |-> TRUE,
               fields |-> <<<<"materialNm", StringValue("")>>, <<"limit", NullField>>>>]
  /\ request.query = <<<<"materialNm", "">>>>

\* C16: a field whose value is the empty string is not in the query of the
\* request URL, a field whose value is the number 0 is there as '0', and the
\* query of the URL is the serialized pairs with a non-empty value, in order.
C16_UrlOmitsEmptyValues ==
  pc # "idle" =>
    /\ \A i \in DOMAIN KeyOrder :
         /\ Get(params.fields, KeyOrder[i]) = StringValue("")
              => KeyOrder[i] \notin Keys(request.url.search)
         /\ Get(params.fields, KeyOrder[i]) = NumberValue(0)
              => \E j \in DOMAIN request.url.search :
                   request.url.search[j] = <<KeyOrder[i], "0">>
    /\ request.url.search = SelectSeq(request.query, LAMBDA pair : pair[2] # "")

\* listPrototypes({ materialNm: '', limit: 0 }) was requested with ?limit=0
C16_Witness ==
  /\ pc = "inFlight"
  /\ op = "listPrototypes"
  /\ params = [given |-> TRUE,
               fields |-> <<<<"materialNm", StringValue("")>>, <<"limit", NumberValue(0)>>>>]
  /\ request.url.search = <<<<"limit", "0">>>>

\* C17: the keys of the query of the request URL follow the fixed order of the
\* serializer, and a call with the same field values as the previous call, on a
\* client with the same configuration, has the same URL, in whatever order the
\* caller set the fields.
C17_UrlIndependentOfFieldOrder ==
  pc # "idle" =>
    /\ \A i, j \in DOMAIN request.url.search :
         i < j => KeyIndex(request.url.search[i][1]) < KeyIndex(request.url.search[j][1])
    /\ (/\ previous.made
        /\ previous.baseUrlOpt = baseUrlOpt
        /\ previous.op = op
        /\ SameFields(previous.params, params))
         => request.url = previous.url

\* two calls that set the same fields in opposite orders built the same URL
C17_Witness ==
  /\ pc = "inFlight"
  /\ previous.made
  /\ previous.baseUrlOpt = baseUrlOpt
  /\ previous.op = op
  /\ previous.params.fields = <<<<"limit", NumberValue(1)>>, <<"materialNm", StringValue("vr")>>>>
  /\ params.fields = <<<<"materialNm", StringValue("vr")>>, <<"limit", NumberValue(1)>>>>
  /\ request.url = previous.url
  /\ request.url.search = <<<<"materialNm", "vr">>, <<"limit", "1">>>>

\* C18: the stored base URL never ends with '/', and a client configured with
\* a base URL and one configured with that base URL followed by a slash build
\* the same request URL for the same operation and parameters.
C18_TrailingSlashStripped ==
  /\ ~EndsWithSlash(baseUrl)
  /\ (/\ pc # "idle"
      /\ previous.made
      /\ previous.op = op
      /\ SameFields(previous.params, params)
      /\ previous.baseUrlOpt.set
      /\ baseUrlOpt.set
      /\ \/ baseUrlOpt.val = previous.baseUrlOpt.val \o <<"/">>
         \/ previous.baseUrlOpt.val = baseUrlOpt.val \o <<"/">>)
       => request.url = previous.url

\* C19: the header map of a ProtoPediaApiError is an object of its own, never
\* the map or the response headers it was built from, and it keeps the entries
\* its source had at construction whatever is written to the source later.
C19_ErrorHeadersAreSnapshot ==
  errorHeaders # "none" =>
    /\ errorHeaders \notin SourceRefs
    /\ errorHeaders # builtFrom
    /\ heap[errorHeaders] = snapshot

\* the caller changed Accept in its map after constructing the error from it
C19_Witness ==
  /\ errorHeaders # "none"
  /\ builtFrom = "callerMap"
  /\ snapshot = [n \in {"accept"} |-> "application/json"]
  /\ heap["callerMap"] = [n \in {"accept"} |-> "text/plain"]
  /\ heap[errorHeaders] = snapshot

----------------------------------------------------------------------------
(* Properties of logging, of the error body and of the release of resources *)

\* the call ended after the transport returned a non-2xx response
ErrorBuilt == pc = "done" /\ transportResult.kind = "response" /\ ~Ok(TheResponse)

\* the reads of the body as handle.method, in the order they were issued
ReadLabels == [i \in DOMAIN body.reads |-> body.reads[i].handle \o "." \o body.reads[i].method]

LastRead == body.reads[Len(body.reads)]

\* the read of the body as plain text
TextRead == CHOOSE r \in {body.reads[i] : i \in DOMAIN body.reads} : r.method = "text"

SilentValue == getLogLevelValue("silent")

\* an entry of level error reached the logger
ErrorReported == \E i \in DOMAIN logged : logged[i].level = "error" /\ logged[i].emitted

\* C22: whatever log level the client or the call was given, the call ends as
\* it ends at level silent: with the same value thrown or returned; and once
\* an error was reported to the logger the call has thrown.
C22_OutcomeIndependentOfLogLevel ==
  [][/\ CatchStep =>
          outcome' = [kind |-> "threw",
                      value |-> executeCatch(TheError, signalGiven, token, <<>>,
                                             SilentValue).thrown]
     /\ (pc = "buildError" /\ pc' = "done") =>
          outcome' = [kind |-> "threw",
                      value |-> executeCatch(buildError(TheResponse, body').value,
                                             signalGiven, token, <<>>,
                                             SilentValue).thrown]
     /\ (pc = "decoding" /\ pc' = "done") =>
          outcome'.value = (IF op = "listPrototypes"
                            THEN parseJson(TheResponse, body', "listPrototype")
                            ELSE readTsv(body')).value
     /\ ErrorReported' => (pc' = "done" /\ outcome'.kind = "threw")]_vars

C22_Witness ==
  /\ pc = "done"
  /\ logLevel = "silent"
  /\ requestLogLevel = "debug"
  /\ ErrorReported
  /\ outcome = [kind |-> "threw", value |-> FetchNetworkError]

\* C23: the reads of the body of a non-2xx response are issued in the
\* priority order of the content type (JSON: the copy as JSON, then the
\* response as text; otherwise: the response as text, then as JSON), each
\* only after every earlier one failed and until one succeeds, and the body
\* of the error is the result of the read that succeeded.
C23_BodyFromFirstSucceedingStrategy ==
  ErrorBuilt =>
    LET order == IF ContentTypeIsJson(TheResponse)
                 THEN (IF body.cloneOk THEN <<"copy.json", "response.text">>
                       ELSE <<"response.text">>)
                 ELSE <<"response.text", "response.json">>
        n == Len(body.reads)
    IN /\ n >= 1
       /\ n <= Len(order)
       /\ ReadLabels = SubSeq(order, 1, n)
       /\ \A i \in 1 .. n - 1 : body.reads[i].error # Undefined
       /\ LastRead.error # Undefined => n = Len(order)
       /\ LastRead.error = Undefined =>
            /\ IsApiError(outcome.value)
            /\ outcome.value.body = IF LastRead.method = "json" THEN JsonValue ELSE TextValue

C23_Witness ==
  /\ ErrorBuilt
  /\ ~ContentTypeIsJson(TheResponse)
  /\ ReadLabels = <<"response.text", "response.json">>
  /\ outcome.value.body = JsonValue

\* every read of the body failed
EveryStrategyFailed == ErrorBuilt /\ LastRead.error # Undefined

\* C24 as stated: when every strategy failed, each with an Error, the body of
\* the error carries the message of the last failure that occurred.
C24_BodyNamesLastFailure ==
  (EveryStrategyFailed /\ \A i \in DOMAIN body.reads : body.reads[i].error # Null)
    => /\ IsApiError(outcome.value)
       /\ outcome.value.body = [kind |-> "parseError", message |-> LastRead.error.id]

\* C24 amended: when every strategy failed, the body of the error carries the
\* message of the failure of the plain-text read, the last failure when the
\* content type is JSON and the first otherwise; when that read rejected with
\* null or undefined no ProtoPediaApiError is built and the call throws a
\* TypeError.
C24_BodyNamesTextFailure ==
  EveryStrategyFailed =>
    IF TextRead.error = Null
    THEN outcome.value = PropertyAccessError
    ELSE /\ IsApiError(outcome.value)
         /\ outcome.value.body = [kind |-> "parseError", message |-> TextRead.error.id]

C24_Witness ==
  /\ EveryStrategyFailed
  /\ ReadLabels = <<"response.text", "response.json">>
  /\ TextRead.error = BodyReadError
  /\ LastRead.error = JsonSyntaxError
  /\ outcome.value.body = [kind |-> "parseError", message |-> "terminated"]

\* C25: whatever the reads of the body of a non-2xx response reject with,
\* building the error does not throw and the caller receives a
\* ProtoPediaApiError.
C25_ErrorBodyExtractionNeverThrows ==
  ErrorBuilt => (catchBranch = "apiError" /\ IsApiError(outcome.value))

\* C26: while the error is built no read is issued on a handle of a standard
\* body on which an earlier read was issued.
C26_NoReadOfConsumedBody ==
  ErrorBuilt => \A i \in DOMAIN body.reads : ~(body.std /\ body.reads[i].used)

\* C27: when the JSON read of the 2xx response of listPrototypes failed and
\* the read of the raw text failed too, the call throws the decode error, a
\* ProtoPediaApiError with an empty body.
C27_DecodeErrorWithoutText ==
  (/\ pc = "done"
   /\ op = "listPrototypes"
   /\ transportResult.kind = "response"
   /\ Ok(TheResponse)
   /\ Len(body.reads) = 2
   /\ LastRead.error # Undefined)
    => /\ IsApiError(outcome.value)
       /\ outcome.value.id = "Failed to parse listPrototype response as JSON"
       /\ outcome.value.body = NullValue

\* C30 as stated: once the transport returned a response the timer is
\* cleared and the listener detached, before the body is read.
C30_ReleasedOnceTransportSettled ==
  (transportResult.kind = "response" /\ pc \in {"decoding", "buildError"})
    => (~timerPending /\ ~listenerAttached)

\* C30 amended: for a 2xx response the timer is cleared and the listener
\* detached when execute returns, before the body is decoded: while it is
\* decoded no step changes the composed signal, and the call ends as the
\* read of the body ends.  For a non-2xx response they are released when
\* buildError has settled.
C30_ReleasedBeforeDecoding ==
  [][/\ pc = "decoding" =>
          /\ ~timerPending
          /\ ~listenerAttached
          /\ composed' = composed
          /\ pc' = "decoding" => outcome' = outcome
          /\ pc' = "done" =>
               outcome'.value = (IF op = "listPrototypes"
                                 THEN parseJson(TheResponse, body', "listPrototype")
                                 ELSE readTsv(body')).value
     /\ (pc = "buildError" /\ pc' = "done") => (~timerPending' /\ ~listenerAttached')]_vars

C30_Witness ==
  /\ pc = "decoding"
  /\ timeoutId
  /\ signalGiven
  /\ abortListener
  /\ token.aborted
  /\ ~composed.aborted

\* a header name that names a credential
NamesCredential(name) == Includes(Lower(name), "auth") \/ Includes(Lower(name), "token")

\* C28: in every header map that reached the logger, each header whose name
\* contains 'auth' or 'token' has the value '***'.
C28_LoggedHeadersMasked ==
  \A i \in DOMAIN logged :
    logged[i].emitted =>
      \A n \in DOMAIN logged[i].headers :
        NamesCredential(n) => logged[i].headers[n] = "***"

\* the severities from the least to the most verbose
Severities == <<"error", "warn", "info", "debug">>

Verbosity(level) == CHOOSE i \in DOMAIN Severities : Severities[i] = level

\* the level in force for the call: its own when it was given one
EffectiveLevel == IF requestLogLevel = "none" THEN logLevel ELSE requestLogLevel

\* C29: a message reaches the logger if and only if the level in force for
\* the call, the call's own level when given and the client's otherwise, is
\* not silent and the severity of the message is at most as verbose as it; no
\* step changes the level of the client, and a call starts with no level of
\* its own.
C29_LoggedIffAtMostAsVerbose ==
  [][/\ \A i \in DOMAIN logged' :
          logged'[i].emitted <=>
            /\ EffectiveLevel' # "silent"
            /\ Verbosity(logged'[i].level) <= Verbosity(EffectiveLevel')
     /\ logLevel' = logLevel
     /\ pc' = "idle" => requestLogLevel' = "none"]_vars

C29_Witness ==
  /\ previous.made
  /\ pc = "done"
  /\ logLevel = "warn"
  /\ requestLogLevel = "none"
  /\ \E i \in DOMAIN logged : logged[i].level = "warn" /\ logged[i].emitted
  /\ \E i \in DOMAIN logged : logged[i].level = "debug" /\ ~logged[i].emitted

\* the step is the firing of the timer of call d
TimerFiredOf(d) ==
  /\ calls' = calls
  /\ \E t \in timers : t.call = d /\ t \notin timers'

\* the step is the cancellation of the token k
TokenCancelled(k) == ~signals[k].aborted /\ signals'[k].aborted

\* C21: with two calls on one client, the firing of the timer of one call, or
\* the cancellation of a token that is not the token of the other call, leaves
\* the composed signal of the other call and the state and outcome of that
\* call as they were; and no step changes the configuration of the client.
C21_CallsAreIndependent ==
  [][/\ \A c \in CallIds, d \in CallIds :
          (/\ c # d
           /\ calls[c].pc # "idle"
           /\ \/ TimerFiredOf(d)
              \/ \E k \in TokenRefs : TokenCancelled(k) /\ calls[c].token # k)
            => /\ signals'[calls[c].controller] = signals[calls[c].controller]
               /\ calls'[c] = calls[c]
     /\ config' = config]_vars

C21_Witness ==
  /\ calls["first"].pc = "inFlight"
  /\ calls["second"].pc = "done"
  /\ calls["first"].token = "tokenA"
  /\ calls["second"].token = "tokenB"
  /\ signals["tokenB"].aborted
  /\ calls["second"].outcome = [kind |-> "threw", value |-> CallerError]
  /\ ~signals[calls["first"].controller].aborted
  /\ Closure("first", calls["first"]) \in timers
  /\ Closure("second", calls["second"]) \notin timers

====
